---- MODULE Spec2Model ----
(***************************************************************************)
(* DeepStudy dialogue graph engine: the Neo4j store adapter                *)
(* (backend/data/neo4j_client.py), the dialogue tree reader, the mind map  *)
(* route (backend/api/routes/mindmap.py), the intent router and the chat   *)
(* route (backend/agent, backend/api/routes/chat.py).                      *)
(***************************************************************************)
EXTENDS Integers, Sequences, FiniteSets, TLC

VARIABLES
    nodes,      \* the graph's vertices: vertex key -> property record
    edges,      \* the graph's relationships: a set of edge records
    calls,      \* number of store write calls made so far
    ret,        \* the last store write call: its arguments and its outcome
    tpc,        \* get_dialogue_tree: "idle" | "walk" | "done"
    treq,       \* get_dialogue_tree: its arguments
    stack,      \* get_dialogue_tree: the get_children frames in progress
    tree,       \* get_dialogue_tree: the nodes of the tree built so far
    tres,       \* get_conversation: the HTTP response
    mres,       \* get_mind_map: the last call and its response
    cpc,        \* chat: the request's position
    creq,       \* chat: the request
    cintent,    \* chat: the intent the router returned
    attempts,   \* chat: completion calls made by the router for this request
    cres        \* chat: the HTTP response

vars == <<nodes, edges, calls, ret, tpc, treq, stack, tree, tres, mres,
          cpc, creq, cintent, attempts, cres>>

storeVars == <<nodes, edges, calls, ret>>
treeVars  == <<tpc, treq, stack, tree, tres>>
mapVars   == <<mres>>
chatVars  == <<cpc, creq, cintent, attempts, cres>>

----------------------------------------------------------------------------
(* Bounds and input sets *)

MaxCalls == 4          \* store write calls in one behaviour
MaxCallsLong == 5      \* store write calls in one behaviour that builds a chain
MaxDepthArg == 3       \* largest max_depth a reader passes

NULL == "NULL"         \* Python None / a missing property (string-valued)
NoTime == <<>>         \* timestamp=None

DialogueIds == {"a", "b", "a_root"}   \* node_id values callers use
Users == {"u1", "u2"}
Roles == {"user", "assistant"}
Intents == {"derivation", "code", "concept"}
Fragments == {NULL, "", "f1"}
RelTypes == {"HAS_KEYWORD", "REQUIRES"}

\* datetime values callers pass and utcnow() returns: <<second, microsecond>>
Datetimes == {<<1, 0>>, <<1, 5>>, <<2, 0>>}

Truthy(s) == s # NULL /\ s # ""

----------------------------------------------------------------------------
(* datetime.isoformat(): the microsecond part is left out when it is 0.    *)
(* The stored timestamp is this text; Cypher orders texts lexicographically *)

isoformat(dt) == IF dt[2] = 0 THEN <<dt[1]>> ELSE <<dt[1], dt[2]>>

RECURSIVE TextLeq(_, _)
TextLeq(s, t) ==
    IF s = <<>> THEN TRUE
    ELSE IF t = <<>> THEN FALSE
    ELSE IF Head(s) < Head(t) THEN TRUE
    ELSE IF Head(s) > Head(t) THEN FALSE
    ELSE TextLeq(Tail(s), Tail(t))

----------------------------------------------------------------------------
(* The graph *)

\* MATCH (n:DialogueNode {node_id: $node_id})
MatchDialogue(node_id) ==
    {k \in DOMAIN nodes : nodes[k].label = "DialogueNode" /\ nodes[k].node_id = node_id}

HasChildEdges(p, c) ==
    {e \in edges : e.src = p /\ e.dst = c /\ e.type = "HAS_CHILD"}

\* the next parallel copy of an edge: relationships made by separate CREATEs
\* are distinct relationships with distinct element ids
NewEdge(s, d, ty, f) ==
    LET same == {e \in edges : e.src = s /\ e.dst = d /\ e.type = ty /\ e.fragment_id = f}
    IN  [src |-> s, dst |-> d, type |-> ty, fragment_id |-> f,
         copy |-> Cardinality(same) + 1]

NoCall == [op |-> "none", outcome |-> "none"]

Init ==
    /\ nodes = <<>>
    /\ edges = {}
    /\ calls = 0
    /\ ret = NoCall
    /\ tpc = "idle"
    /\ treq = <<>>
    /\ stack = <<>>
    /\ tree = <<>>
    /\ tres = <<>>
    /\ mres = <<>>
    /\ cpc = "idle"
    /\ creq = <<>>
    /\ cintent = NULL
    /\ attempts = 0
    /\ cres = <<>>

----------------------------------------------------------------------------
(* Neo4jClient.save_dialogue_node *)

\* a save that stamps the write time whatever timestamp the caller passes
SaveResultsAlwaysNow(ns, node_id, user_id, role, content, intent, mastery_score, timestamp) ==
    {[k \in DOMAIN ns \cup {node_id} |->
        IF k = node_id
        THEN [label |-> "DialogueNode", node_id |-> node_id, user_id |-> user_id,
              role |-> role, content |-> content, intent |-> intent,
              mastery_score |-> mastery_score,
              timestamp |-> IF dt[2] = 0 THEN <<dt[1]>> ELSE <<dt[1], dt[2]>>,
              title |-> NULL, type |-> NULL]
        ELSE ns[k]] : dt \in Datetimes}

\* MERGE (n:DialogueNode {node_id}) SET n.user_id = ..., n.timestamp = ...
\* on the node table ns, with the timestamp already resolved to a datetime
SavedNodes(ns, node_id, user_id, role, content, intent, mastery_score, stamp) ==
    LET rec == [label |-> "DialogueNode", node_id |-> node_id, user_id |-> user_id,
                role |-> role, content |-> content, intent |-> intent,
                mastery_score |-> mastery_score, timestamp |-> isoformat(stamp),
                title |-> NULL, type |-> NULL]
    IN  [k \in DOMAIN ns \cup {node_id} |-> IF k = node_id THEN rec ELSE ns[k]]

\* the node tables one call can leave: timestamp=None is replaced by utcnow()
SaveResults(ns, node_id, user_id, role, content, intent, mastery_score, timestamp) ==
    {SavedNodes(ns, node_id, user_id, role, content, intent, mastery_score, stamp) :
        stamp \in IF timestamp = NoTime THEN Datetimes ELSE {timestamp}}

save_dialogue_node(node_id, user_id, role, content, intent, mastery_score, timestamp) ==
    /\ calls < MaxCallsLong
    /\ nodes' \in SaveResults(nodes, node_id, user_id, role, content, intent,
                              mastery_score, timestamp)
    /\ ret' = [op |-> "save_dialogue_node", outcome |-> "ok"]
    /\ calls' = calls + 1
    /\ UNCHANGED edges

----------------------------------------------------------------------------
(* Neo4jClient.link_dialogue_nodes *)

\* a link that checks the parent only
LinkCheckParentOnly(parent_node_id, child_node_id) ==
    IF MatchDialogue(parent_node_id) = {} THEN "ValueError: parent missing"
    ELSE "ok"

\* the two existence checks; the first failing one raises ValueError
LinkCheck(parent_node_id, child_node_id) ==
    IF MatchDialogue(parent_node_id) = {} THEN "ValueError: parent missing"
    ELSE IF MatchDialogue(child_node_id) = {} THEN "ValueError: child missing"
    ELSE "ok"

\* MATCH (parent), (child) MERGE (parent)-[r:HAS_CHILD {fragment_id?}]->(child)
LinkedEdges(parent_node_id, child_node_id, fragment_id) ==
    IF MatchDialogue(parent_node_id) = {} \/ MatchDialogue(child_node_id) = {}
    THEN edges
    ELSE IF Truthy(fragment_id)
    THEN IF \E e \in HasChildEdges(parent_node_id, child_node_id) :
                e.fragment_id = fragment_id
         THEN edges
         ELSE edges \cup {NewEdge(parent_node_id, child_node_id, "HAS_CHILD", fragment_id)}
    ELSE IF HasChildEdges(parent_node_id, child_node_id) # {}
         THEN edges
         ELSE edges \cup {NewEdge(parent_node_id, child_node_id, "HAS_CHILD", NULL)}

\* a link that creates the relationship without looking for its endpoints
link_without_match(parent_node_id, child_node_id, fragment_id) ==
    /\ calls < MaxCallsLong
    /\ edges' = edges \cup {NewEdge(parent_node_id, child_node_id, "HAS_CHILD",
                                    fragment_id)}
    /\ ret' = [op |-> "link_dialogue_nodes", outcome |-> "ok"]
    /\ calls' = calls + 1
    /\ UNCHANGED nodes

link_dialogue_nodes(parent_node_id, child_node_id, fragment_id) ==
    /\ calls < MaxCallsLong
    /\ LET check == LinkCheck(parent_node_id, child_node_id)
       IN  /\ edges' = IF check = "ok"
                       THEN LinkedEdges(parent_node_id, child_node_id, fragment_id)
                       ELSE edges
           /\ ret' = [op |-> "link_dialogue_nodes", outcome |-> check]
    /\ calls' = calls + 1
    /\ UNCHANGED nodes

----------------------------------------------------------------------------
(* Neo4jClient.create_node, Neo4jClient.create_relationship *)

\* CREATE (n:Concept $properties); the key stands for the backend's id(n)
create_node(key, node_id, title) ==
    /\ calls < MaxCallsLong
    /\ key \notin DOMAIN nodes
    /\ nodes' = [k \in DOMAIN nodes \cup {key} |->
                   IF k = key
                   THEN [label |-> "Concept", node_id |-> node_id, user_id |-> NULL,
                         role |-> NULL, content |-> NULL, intent |-> NULL,
                         mastery_score |-> 0, timestamp |-> <<>>,
                         title |-> title, type |-> NULL]
                   ELSE nodes[k]]
    /\ ret' = [op |-> "create_node", outcome |-> "ok"]
    /\ calls' = calls + 1
    /\ UNCHANGED edges

\* MATCH (a), (b) WHERE id(a) = $source_id AND id(b) = $target_id CREATE (a)-[r:T]->(b)
\* no row matches, and nothing is created, when either id names no node
create_relationship(source_id, target_id, relation_type) ==
    /\ calls < MaxCallsLong
    /\ edges' = IF source_id \in DOMAIN nodes /\ target_id \in DOMAIN nodes
                THEN edges \cup {NewEdge(source_id, target_id, relation_type, NULL)}
                ELSE edges
    /\ ret' = [op |-> "create_relationship", outcome |-> "ok"]
    /\ calls' = calls + 1
    /\ UNCHANGED nodes

----------------------------------------------------------------------------
(* Callers of the store: the arguments each specification draws *)

SaveCall(ids, users, roles, contents, intents, stamps) ==
    \E node_id \in ids, user_id \in users, role \in roles, content \in contents,
       intent \in intents, timestamp \in stamps :
        /\ calls < MaxCalls
        /\ save_dialogue_node(node_id, user_id, role, content, intent, 0, timestamp)
        /\ UNCHANGED <<treeVars, mapVars, chatVars>>

LinkCall(ids, fragments) ==
    \E parent_node_id \in ids, child_node_id \in ids, fragment_id \in fragments :
        /\ calls < MaxCalls
        /\ link_dialogue_nodes(parent_node_id, child_node_id, fragment_id)
        /\ UNCHANGED <<treeVars, mapVars, chatVars>>

LinkFragmentCall(parents, children, fragments) ==
    \E parent_node_id \in parents, child_node_id \in children,
       fragment_id \in fragments :
        /\ calls < MaxCalls
        /\ link_dialogue_nodes(parent_node_id, child_node_id, fragment_id)
        /\ UNCHANGED <<treeVars, mapVars, chatVars>>

CreateNodeCall(keys, titles) ==
    \E key \in keys, has_id \in BOOLEAN, title \in titles :
        /\ calls < MaxCalls
        /\ create_node(key, IF has_id THEN key ELSE NULL, title)
        /\ UNCHANGED <<treeVars, mapVars, chatVars>>

CreateRelationshipCall(ids, types) ==
    \E source_id \in ids, target_id \in ids, relation_type \in types :
        /\ calls < MaxCalls
        /\ create_relationship(source_id, target_id, relation_type)
        /\ UNCHANGED <<treeVars, mapVars, chatVars>>

\* the writes of a caller that builds a chain of three nodes: one user, one
\* content, no fragment
SaveCallLong(ids, stamps) ==
    \E node_id \in ids, timestamp \in stamps :
        /\ save_dialogue_node(node_id, "u1", "assistant", "q", NULL, 0, timestamp)
        /\ UNCHANGED <<treeVars, mapVars, chatVars>>

LinkCallLong(parents, children) ==
    \E parent_node_id \in parents, child_node_id \in children :
        /\ link_dialogue_nodes(parent_node_id, child_node_id, NULL)
        /\ UNCHANGED <<treeVars, mapVars, chatVars>>

----------------------------------------------------------------------------
(* Neo4jClient.get_dialogue_tree and its recursive get_children            *)
(*                                                                         *)
(* The nested dict the code builds is held as the list of its nodes in     *)
(* pre-order, each with the path of node_ids from the root down to it and  *)
(* the properties the query returned for it. A frame of `stack` is one     *)
(* get_children call: the path of its parent, whether its query has run,   *)
(* and the rows of its result not yet visited. Every step of the reader is *)
(* one await of session.run; the code between two awaits runs in Settle.   *)

Last(s) == s[Len(s)]
Front(s) == SubSeq(s, 1, Len(s) - 1)

\* all orders of the set S
RECURSIVE Perms(_)
Perms(S) ==
    IF S = {} THEN {<<>>}
    ELSE UNION {{<<x>> \o p : p \in Perms(S \ {x})} : x \in S}

\* MATCH (parent:DialogueNode {node_id})-[:HAS_CHILD]->(child:DialogueNode)
\* one row per relationship
ChildEdges(parent_id) ==
    {e \in edges : /\ e.type = "HAS_CHILD"
                   /\ e.src \in MatchDialogue(parent_id)
                   /\ nodes[e.dst].label = "DialogueNode"}

\* a child query without ORDER BY: the rows in any order
ChildRowsUnordered(parent_id) ==
    {[i \in 1..Len(p) |-> nodes[p[i].dst]] : p \in Perms(ChildEdges(parent_id))}

\* RETURN child ORDER BY child.timestamp: the rows in every order the sort
\* allows (rows of equal timestamp come in any order)
ChildRows(parent_id) ==
    {[i \in 1..Len(p) |-> nodes[p[i].dst]] : p \in
        {q \in Perms(ChildEdges(parent_id)) :
            \A i \in 1..(Len(q) - 1) :
                TextLeq(nodes[q[i].dst].timestamp, nodes[q[i + 1].dst].timestamp)}}

\* a walk without a depth bound
DepthReachedNever(depth, max_depth) == FALSE

\* a depth test that is off by one
DepthReachedLate(depth, max_depth) == depth > max_depth

\* if depth >= max_depth: return []
DepthReached(depth, max_depth) == depth >= max_depth

\* the code that runs without awaiting: returns of finished get_children
\* calls, rows without node_id skipped, the next child entered
RECURSIVE Settle(_, _, _)
SettleStep(st, tr, max_depth) ==
    IF st = <<>> THEN [stack |-> st, tree |-> tr]
    ELSE LET top == Last(st)
             depth == Len(top.path) - 1
         IN  IF ~top.queried
             THEN IF DepthReached(depth, max_depth)
                  THEN Settle(Front(st), tr, max_depth)
                  ELSE [stack |-> st, tree |-> tr]
             ELSE IF top.rows = <<>>
             THEN Settle(Front(st), tr, max_depth)
             ELSE LET child_node == Head(top.rows)
                      rest == Front(st) \o <<[top EXCEPT !.rows = Tail(top.rows)]>>
                  IN  IF ~Truthy(child_node.node_id)
                      THEN Settle(rest, tr, max_depth)
                      ELSE LET path == Append(top.path, child_node.node_id)
                           IN  Settle(Append(rest, [path |-> path, queried |-> FALSE,
                                                    rows |-> <<>>]),
                                      Append(tr, [path |-> path, node |-> child_node]),
                                      max_depth)

\* one pass of SettleStep per call frame, on the values of the call stack and
\* of the tree built so far
Settle(st0, tr0, max_depth) ==
    CHOOSE s \in {SettleStep(st, tr, max_depth) : st \in {st0}, tr \in {tr0}} : TRUE

\* a root query that leaves out the owner
RootMatchAnyOwner(root_node_id, user_id) == MatchDialogue(root_node_id)

\* MATCH (n:DialogueNode {node_id: $node_id, user_id: $user_id}) RETURN n
RootMatch(root_node_id, user_id) ==
    {k \in MatchDialogue(root_node_id) : nodes[k].user_id = user_id}

TreeDone(response) ==
    /\ tpc' = "done"
    /\ tres' = response

\* get_conversation calls get_dialogue_tree: the root query
get_dialogue_tree(root_node_id, user_id, max_depth) ==
    /\ tpc = "idle"
    /\ treq' = [root_node_id |-> root_node_id, user_id |-> user_id,
                max_depth |-> max_depth]
    /\ IF RootMatch(root_node_id, user_id) = {}
       THEN \* return None; get_conversation raises 404
            /\ TreeDone([status |-> 404, detail |-> "not found"])
            /\ stack' = <<>>
            /\ tree' = <<>>
       ELSE LET root == [path |-> <<root_node_id>>, node |-> nodes[root_node_id]]
                s == Settle(<<[path |-> <<root_node_id>>, queried |-> FALSE,
                               rows |-> <<>>]>>, <<root>>, max_depth)
            IN  /\ stack' = s.stack
                /\ tree' = s.tree
                /\ IF s.stack = <<>>
                   THEN TreeDone([status |-> 200, detail |-> "tree"])
                   ELSE tpc' = "walk" /\ tres' = <<>>
    /\ UNCHANGED <<storeVars, mapVars, chatVars>>

\* one get_children query, then the code up to the next await
get_children ==
    /\ tpc = "walk"
    /\ LET top == Last(stack)
       IN  \E rows \in ChildRows(Last(top.path)) :
            LET s == Settle(Front(stack) \o <<[top EXCEPT !.queried = TRUE,
                                                          !.rows = rows]>>,
                            tree, treq.max_depth)
            IN  /\ stack' = s.stack
                /\ tree' = s.tree
                /\ IF s.stack = <<>>
                   THEN TreeDone([status |-> 200, detail |-> "tree"])
                   ELSE tpc' = "walk" /\ tres' = <<>>
    /\ UNCHANGED <<treq, storeVars, mapVars, chatVars>>

\* a query of the walk fails in the backend: get_conversation answers 500
get_conversation_error ==
    /\ tpc = "walk"
    /\ TreeDone([status |-> 500, detail |-> "error"])
    /\ stack' = <<>>
    /\ tree' = <<>>
    /\ UNCHANGED <<treq, storeVars, mapVars, chatVars>>

\* the response is delivered; the reader takes the next request
get_conversation_return ==
    /\ tpc = "done"
    /\ tpc' = "idle"
    /\ treq' = <<>>
    /\ stack' = <<>>
    /\ tree' = <<>>
    /\ tres' = <<>>
    /\ UNCHANGED <<storeVars, mapVars, chatVars>>

GetTreeCall(ids, users) ==
    \E root_node_id \in ids, user_id \in users, max_depth \in 0..MaxDepthArg :
        get_dialogue_tree(root_node_id, user_id, max_depth)

----------------------------------------------------------------------------
(* get_mind_map (backend/api/routes/mindmap.py)                            *)

\* texts longer than 15 characters among the contents and titles in use
LongText == "a question of more than fifteen characters"
NonText == "<a value that is no text>"
TextLen(t) == IF t = LongText THEN 42 ELSE 1

\* MATCH (n:DialogueNode) WHERE n.node_id = $cid OR n.node_id = $cid + "_root"
Anchors(cid) ==
    {k \in DOMAIN nodes : /\ nodes[k].label = "DialogueNode"
                          /\ nodes[k].node_id \in {cid, cid \o "_root"}}

\* OPTIONAL MATCH (n)<-[:HAS_CHILD|HAS_KEYWORD]-(parent)
ParentEdges(n) ==
    {e \in edges : e.dst = n /\ e.type \in {"HAS_CHILD", "HAS_KEYWORD"}}

\* WITH coalesce(parent, n) as root: one row per anchor and parent edge, or
\* one row for an anchor without a parent edge
RootRows(cid) ==
    UNION {IF ParentEdges(n) = {}
           THEN {[anchor |-> n, via |-> <<>>, root |-> n]}
           ELSE {[anchor |-> n, via |-> <<e>>, root |-> e.src] : e \in ParentEdges(n)}
           : n \in Anchors(cid)}

\* MATCH (root)-[r]->(child) RETURN ...: one row per root row and outgoing
\* relationship of its root; `of` keeps apart equal rows of different root rows
CypherRows(cid) ==
    UNION {{[of |-> <<rr.anchor, rr.via>>,
             source_id |-> nodes[rr.root].node_id,
             source_title |-> nodes[rr.root].title,
             source_content |-> nodes[rr.root].content,
             source_type |-> nodes[rr.root].type,
             target_id |-> nodes[r.dst].node_id,
             target_title |-> nodes[r.dst].title,
             target_content |-> nodes[r.dst].content,
             target_type |-> nodes[r.dst].type,
             rel_id |-> r,
             rel_type |-> r.type] : r \in {e \in edges : e.src = rr.root}}
           : rr \in RootRows(cid)}

\* the rows of a result as the list the driver hands over. The query has no
\* ORDER BY, so the order is the backend's; one order stands for it here
RECURSIVE Records(_)
Records(S) ==
    IF S = {} THEN <<>>
    ELSE LET x == CHOOSE y \in S : TRUE IN <<x>> \o Records(S \ {x})

\* neo4j_client.query(cypher, {"cid": cid}): the rows, or an exception.
\* Neo4jClient as it stands in neo4j_client.py has no method `query` (the
\* call then raises AttributeError); section 4.1 of the design gives the
\* adapter one that runs the text and returns its rows, or fails.
query(cid) ==
    {[raised |-> TRUE, records |-> <<>>],
     [raised |-> FALSE, records |-> Records(CypherRows(cid))]}

Falsy(v) == v = NULL \/ v = ""

\* label = title or content or placeholder, cut to 15 characters when it is
\* not a title; len() of a value that is no text raises
LabelRaises(title, content) ==
    LET label == IF ~Falsy(title) THEN title ELSE content
    IN  ~Falsy(label) /\ label = NonText

Label(title, content, placeholder) ==
    LET label == IF ~Falsy(title) THEN title
                 ELSE IF ~Falsy(content) THEN content ELSE placeholder
    IN  [text |-> label, cut |-> TextLen(label) > 15 /\ Falsy(title)]

VisualNode(id, title, content, type, placeholder, default_type) ==
    [id |-> id, type |-> "default",
     data |-> [label |-> Label(title, content, placeholder),
               type |-> IF Falsy(type) THEN default_type ELSE type]]

\* a membership test that never finds the id
HasNodeNever(ns, id) == FALSE

HasNode(ns, id) == \E i \in 1..Len(ns) : ns[i].id = id

\* the loop over the records: rows with a missing id are skipped, a node is
\* added the first time its id is met, an edge is added for every other row
RECURSIVE BuildGraph(_, _, _)
BuildGraph(records, nodes_list, edge_list) ==
    IF records = <<>>
    THEN [raised |-> FALSE, nodes |-> nodes_list, edges |-> edge_list]
    ELSE LET record == Head(records)
             s_id == record.source_id
             t_id == record.target_id
         IN  IF Falsy(s_id) \/ Falsy(t_id)
             THEN BuildGraph(Tail(records), nodes_list, edge_list)
             ELSE LET with_s ==
                        IF HasNode(nodes_list, s_id) THEN nodes_list
                        ELSE Append(nodes_list,
                                    VisualNode(s_id, record.source_title,
                                               record.source_content, record.source_type,
                                               "core concept", "root"))
                      with_t ==
                        IF HasNode(with_s, t_id) THEN with_s
                        ELSE Append(with_s,
                                    VisualNode(t_id, record.target_title,
                                               record.target_content, record.target_type,
                                               "child node", "keyword"))
                  IN  IF \/ (~HasNode(nodes_list, s_id)
                               /\ LabelRaises(record.source_title, record.source_content))
                         \/ (~HasNode(with_s, t_id)
                               /\ LabelRaises(record.target_title, record.target_content))
                      THEN [raised |-> TRUE, nodes |-> <<>>, edges |-> <<>>]
                      ELSE BuildGraph(Tail(records), with_t,
                                      Append(edge_list,
                                             [id |-> record.rel_id, source |-> s_id,
                                              target |-> t_id, label |-> record.rel_type]))

EmptyGraph == [nodes |-> <<>>, edges |-> <<>>]

\* a handler that lets the exception through
MindMapOnErrorReraise(e) == [raised |-> TRUE, nodes |-> <<>>, edges |-> <<>>]

\* except Exception: return MindMapGraph(nodes=[], edges=[])
MindMapOnError(e) == [raised |-> FALSE, nodes |-> <<>>, edges |-> <<>>]

\* the try block of get_mind_map for one outcome of the query
MindMapGraph(q) ==
    IF q.raised THEN MindMapOnError(q)
    ELSE LET g == BuildGraph(q.records, <<>>, <<>>)
         IN  IF g.raised THEN MindMapOnError(g) ELSE g

\* what the caller gets: the graph, or the framework's 500 for an exception
\* that leaves the handler
MindMapResponse(conversation_id, q) ==
    LET g == MindMapGraph(q)
    IN  [conversation_id |-> conversation_id,
         status |-> IF g.raised THEN 500 ELSE 200,
         graph |-> [nodes |-> g.nodes, edges |-> g.edges]]

get_mind_map(conversation_id) ==
    /\ \E q \in query(conversation_id) :
         mres' = MindMapResponse(conversation_id, q)
    /\ UNCHANGED <<storeVars, treeVars, chatVars>>

GetMindMapCall(ids) == \E conversation_id \in ids : get_mind_map(conversation_id)

----------------------------------------------------------------------------
(* IntentRouter.route (backend/agent/intent_router.py)                     *)

\* a text is the list of its characters; "dai","ma" and "tui","dao" stand
\* for the two characters of each of the Chinese words for code and for
\* derivation
Code == <<"c", "o", "d", "e">>
CodeZh == <<"dai", "ma">>
Derivation == <<"d", "e", "r", "i", "v", "a", "t", "i", "o", "n">>
DerivationZh == <<"tui", "dao">>

\* str.lower() on the characters in use
LowerChar(ch) ==
    CASE ch = "C" -> "c" [] ch = "O" -> "o" [] ch = "D" -> "d" [] ch = "E" -> "e"
      [] ch = "R" -> "r" [] ch = "I" -> "i" [] ch = "V" -> "v" [] ch = "A" -> "a"
      [] ch = "T" -> "t" [] ch = "N" -> "n" [] OTHER -> ch

lower(text) == [i \in 1..Len(text) |-> LowerChar(text[i])]

IsSpace(ch) == ch \in {" ", "\n"}

\* str.strip()
RECURSIVE lstrip(_)
lstrip(text) ==
    IF text # <<>> /\ IsSpace(Head(text)) THEN lstrip(Tail(text)) ELSE text

RECURSIVE rstrip(_)
rstrip(text) ==
    IF text # <<>> /\ IsSpace(text[Len(text)])
    THEN rstrip(SubSeq(text, 1, Len(text) - 1)) ELSE text

strip(text) == rstrip(lstrip(text))

\* sub in text
Contains(text, sub) ==
    \E i \in 0..(Len(text) - Len(sub)) : SubSeq(text, i + 1, i + Len(sub)) = sub

\* what llm.acomplete(prompt) can do: return a response with a text, return
\* something without a usable .text, or raise (time out, fail)
Completions ==
    {[kind |-> "text", text |-> t] : t \in
        {<<"c", "o", "d", "e">>,
         <<" ", "C", "o", "d", "e", "\n">>,
         <<"d", "e", "r", "i", "v", "a", "t", "i", "o", "n">>,
         <<"D", "E", "R", "I", "V", "A", "T", "I", "O", "N">>,
         <<"dai", "ma">>,
         <<"tui", "dao">>,
         <<"c", "o", "n", "c", "e", "p", "t">>,
         <<"d", "e", "r", "i", "v", "a", "t", "i", "o", "n", " ", "c", "o", "d", "e">>,
         <<"?">>,
         <<>>}}
      \cup {[kind |-> "malformed"], [kind |-> "raise"]}

\* a handler that lets the exception through
RouteOnErrorReraise(completion) == [raised |-> TRUE, intent |-> NULL]

\* except Exception: return IntentType.CONCEPT
RouteOnError(completion) == [raised |-> FALSE, intent |-> "concept"]

\* a router that tests for derivation before code
route_derivation_first(completion) ==
    IF completion.kind # "text" THEN RouteOnError(completion)
    ELSE LET intent_str == lower(strip(completion.text))
         IN  [raised |-> FALSE,
              intent |-> IF Contains(intent_str, Derivation)
                              \/ Contains(intent_str, DerivationZh)
                         THEN "derivation"
                         ELSE IF Contains(intent_str, Code) \/ Contains(intent_str, CodeZh)
                         THEN "code"
                         ELSE "concept"]

\* the try block of route for one outcome of the completion call
route(completion) ==
    IF completion.kind # "text" THEN RouteOnError(completion)
    ELSE LET intent_str == lower(strip(completion.text))
         IN  [raised |-> FALSE,
              intent |-> IF Contains(intent_str, Code) \/ Contains(intent_str, CodeZh)
                         THEN "code"
                         ELSE IF Contains(intent_str, Derivation)
                                   \/ Contains(intent_str, DerivationZh)
                         THEN "derivation"
                         ELSE "concept"]

----------------------------------------------------------------------------
(* chat (backend/api/routes/chat.py) with AgentOrchestrator.process_query  *)
(* and process_recursive_query (backend/agent/orchestrator.py)             *)

\* str(uuid.uuid4()): ids no caller of the store uses
Uuids == {"n1", "n2"}

InternalError == [status |-> 500, conversation_id |-> NULL, parent_id |-> NULL]

\* the request arrives; the orchestrator is built and the branch chosen
chat(parent_id, ref_fragment_id) ==
    /\ cpc = "idle"
    /\ creq' = [parent_id |-> parent_id, ref_fragment_id |-> ref_fragment_id]
    /\ cpc' = IF Truthy(ref_fragment_id) THEN "recursive" ELSE "unclassified"
    /\ cintent' = NULL
    /\ attempts' = 0
    /\ cres' = <<>>
    /\ UNCHANGED <<storeVars, treeVars, mapVars>>

\* process_query: intent = await self.intent_router.route(query)
process_query_route(completion) ==
    /\ cpc = "unclassified"
    /\ attempts' = attempts + 1
    /\ LET r == route(completion)
       IN  IF r.raised
           THEN cpc' = "failed" /\ cintent' = NULL /\ cres' = InternalError
           ELSE cpc' = "classified" /\ cintent' = r.intent /\ cres' = cres
    /\ UNCHANGED <<creq, storeVars, treeVars, mapVars>>

\* process_query: strategy = self.strategies[intent]; response = await
\* strategy.process(query, context); conversation_id = uuid4(); the route
\* returns the response, or 500 when the strategy raised
process_query_answer(ok, uuid) ==
    /\ cpc = "classified"
    /\ cintent \in Intents
    /\ IF ok
       THEN /\ cpc' = "answered"
            /\ cres' = [status |-> 200, conversation_id |-> uuid,
                        parent_id |-> creq.parent_id]
       ELSE /\ cpc' = "failed"
            /\ cres' = InternalError
    /\ UNCHANGED <<creq, cintent, attempts, storeVars, treeVars, mapVars>>

\* process_recursive_query: one completion call with the follow-up prompt,
\* then AgentResponse(conversation_id=uuid4(), parent_id=parent_id or "")
process_recursive_query(ok, uuid) ==
    /\ cpc = "recursive"
    /\ IF ok
       THEN /\ cpc' = "answered"
            /\ cres' = [status |-> 200, conversation_id |-> uuid,
                        parent_id |-> IF creq.parent_id = NULL THEN ""
                                      ELSE creq.parent_id]
       ELSE /\ cpc' = "failed"
            /\ cres' = InternalError
    /\ UNCHANGED <<creq, cintent, attempts, storeVars, treeVars, mapVars>>

\* the response is sent; the next request can arrive
chat_return ==
    /\ cpc \in {"answered", "failed"}
    /\ cpc' = "idle"
    /\ creq' = <<>>
    /\ cintent' = NULL
    /\ attempts' = 0
    /\ cres' = <<>>
    /\ UNCHANGED <<storeVars, treeVars, mapVars>>

\* the caller abandons the request: the coroutine is cancelled at the await
\* it is waiting in (CancelledError is no Exception, so chat's handler does
\* not turn it into a response)
chat_cancelled ==
    /\ cpc \in {"unclassified", "classified", "recursive"}
    /\ cpc' = "idle"
    /\ creq' = <<>>
    /\ cintent' = NULL
    /\ attempts' = 0
    /\ cres' = <<>>
    /\ UNCHANGED <<storeVars, treeVars, mapVars>>

ChatCall == \E parent_id \in {NULL, "a", "zz"}, ref_fragment_id \in Fragments :
                chat(parent_id, ref_fragment_id)

RouteStep == \E completion \in Completions : process_query_route(completion)

AnswerStep == \E ok \in BOOLEAN, uuid \in Uuids : process_query_answer(ok, uuid)

RecursiveStep == \E ok \in BOOLEAN, uuid \in Uuids : process_recursive_query(ok, uuid)

StoreNext ==
    \/ SaveCall({"a", "b"}, Users, {"assistant"}, {"q"}, {NULL, "concept"}, Datetimes \cup {NoTime})
    \/ LinkCall({"a", "b"}, Fragments)

Spec == Init /\ [][StoreNext]_vars

TreeNext ==
    \/ SaveCall({"a", "b"}, Users, {"assistant"}, {"q"}, {NULL}, {<<1, 0>>, <<2, 0>>})
    \/ LinkCall({"a", "b"}, {NULL})
    \/ GetTreeCall({"a", "b"}, Users)
    \/ get_children
    \/ get_conversation_error
    \/ get_conversation_return

SpecTree == Init /\ [][TreeNext]_vars
\* the reader over graphs of two nodes of one user, with the fairness of the
\* event loop: a get_children query that can run does run
TreeLiveNext ==
    \/ SaveCall({"a", "b"}, {"u1"}, {"assistant"}, {"q"}, {NULL}, {<<1, 0>>})
    \/ LinkCall({"a", "b"}, {NULL})
    \/ GetTreeCall({"a", "b"}, {"u1"})
    \/ get_children
    \/ get_conversation_error
    \/ get_conversation_return

SpecTreeLive == Init /\ [][TreeLiveNext]_vars /\ WF_vars(get_children)

\* two follow-ups x and y to one parent p, saved and linked in any order and
\* with any timestamps, and the reader on p
SiblingsNext ==
    \/ SaveCallLong({"p", "x", "y"}, Datetimes)
    \/ LinkCallLong({"p"}, {"x", "y"})
    \/ GetTreeCall({"p"}, {"u1"})
    \/ get_children
    \/ get_conversation_error
    \/ get_conversation_return

SpecSiblings == Init /\ [][SiblingsNext]_vars

\* one pair of nodes linked again and again, without a fragment and with
\* different fragments, and the reader on either node
FragmentsNext ==
    \/ SaveCall({"a", "b"}, {"u1"}, {"assistant"}, {"q"}, {NULL}, {<<1, 0>>})
    \/ LinkFragmentCall({"a", "b"}, {"b"}, {NULL, "f1", "f2"})
    \/ GetTreeCall({"a", "b"}, {"u1"})
    \/ get_children
    \/ get_conversation_error
    \/ get_conversation_return

SpecFragments == Init /\ [][FragmentsNext]_vars

MapNext ==
    \/ SaveCall({"a", "a_root"}, {"u1"}, {"assistant"}, {"q", LongText}, {NULL},
                {<<1, 0>>})
    \/ LinkCall({"a", "a_root"}, {NULL, "f1"})
    \/ CreateNodeCall({"k1"}, {NULL, "T", NonText})
    \/ CreateRelationshipCall({"a", "a_root", "k1"}, RelTypes)
    \/ GetMindMapCall({"a", "a_root"})

SpecMap == Init /\ [][MapNext]_vars

\* a chain g -> p -> n of three nodes built link by link, and the mind map
\* asked for its lowest node
WalkNext ==
    \/ SaveCallLong({"g", "p", "n"}, {<<1, 0>>})
    \/ LinkCallLong({"g", "p"}, {"p", "n"})
    \/ GetMindMapCall({"n", "p"})

SpecWalk == Init /\ [][WalkNext]_vars

ChatNext ==
    \/ SaveCall({"a", "b"}, {"u1"}, Roles, {"q"}, {NULL}, {<<1, 0>>})
    \/ LinkCall({"a", "b"}, {NULL, "f1"})
    \/ ChatCall
    \/ RouteStep
    \/ AnswerStep
    \/ RecursiveStep
    \/ chat_return
    \/ chat_cancelled

SpecChat == Init /\ [][ChatNext]_vars

----------------------------------------------------------------------------
(* Claims about the store adapter (specification Spec)                     *)

IsValueError(outcome) ==
    outcome \in {"ValueError: parent missing", "ValueError: child missing"}

\* C2: link_dialogue_nodes with a parent or a child that is no DialogueNode
\* raises (ValueError, the code's DanglingReferenceError) and leaves the node
\* set and the edge set as they were.
C2_DanglingLinkRefused ==
    [][(calls' # calls /\ ret'.op = "link_dialogue_nodes") =>
         \A p \in DialogueIds, c \in DialogueIds :
            (MatchDialogue(p) = {} \/ MatchDialogue(c) = {}) =>
                \A f \in Fragments :
                    link_dialogue_nodes(p, c, f)
                      => /\ IsValueError(ret'.outcome)
                         /\ nodes' = nodes
                         /\ edges' = edges]_vars

C2_Witness ==
    /\ ret.op = "link_dialogue_nodes"
    /\ ret.outcome = "ValueError: child missing"
    /\ nodes # <<>>

\* a save_dialogue_node step for node_id with this timestamp argument (the
\* other arguments are the field values the step left on the node), after
\* which a second call with the same arguments can only leave the graph it
\* already left; and when the node already held exactly these values, the
\* step changed nothing
SaveIdempotent(node_id, timestamp) ==
    node_id \in DOMAIN nodes' =>
        LET n == nodes'[node_id]
        IN  save_dialogue_node(node_id, n.user_id, n.role, n.content, n.intent,
                               n.mastery_score, timestamp)
              => /\ SaveResults(nodes', node_id, n.user_id, n.role, n.content,
                                n.intent, n.mastery_score, timestamp) = {nodes'}
                 /\ Cardinality(MatchDialogue(node_id)') = 1
                 /\ (nodes \in SaveResults(nodes, node_id, n.user_id, n.role,
                                           n.content, n.intent, n.mastery_score,
                                           timestamp)
                       => nodes' = nodes /\ edges' = edges)

\* C6 as stated: save_dialogue_node called twice with identical arguments
\* (timestamp=None included) leaves the graph as one call does.
C6_SaveIdempotentAnyArgs ==
    [][(calls' # calls /\ ret'.op = "save_dialogue_node") =>
         \A node_id \in DialogueIds, timestamp \in Datetimes \cup {NoTime} :
            SaveIdempotent(node_id, timestamp)]_vars

\* C6 amended: save_dialogue_node called twice with identical arguments and
\* an explicit timestamp leaves the graph as one call does: one node for the
\* node_id, the same field values, the same edges.
C6_SaveIdempotentExplicitTimestamp ==
    [][(calls' # calls /\ ret'.op = "save_dialogue_node") =>
         \A node_id \in DialogueIds, timestamp \in Datetimes :
            SaveIdempotent(node_id, timestamp)]_vars

\* a second save has overwritten the only node of the graph
C6_Witness ==
    /\ ret.op = "save_dialogue_node"
    /\ calls >= 2
    /\ Cardinality(DOMAIN nodes) = 1
    /\ edges # {}

----------------------------------------------------------------------------
(* Claims about the dialogue tree reader (specification SpecTree)          *)

Depth(entry) == Len(entry.path) - 1

HasRepeat(path) == \E i, j \in 1..Len(path) : i < j /\ path[i] = path[j]

\* C3: every node of the tree get_dialogue_tree builds lies at depth
\* <= max_depth below the root, whatever the graph (cycles, several
\* parents); a walk that ran to its end answers 200, not an error.
C3_DepthBound ==
    /\ \A i \in 1..Len(tree) : Depth(tree[i]) <= treq.max_depth
    /\ (tpc = "done" /\ tree # <<>>) => tres.status = 200

\* a finished walk over a cycle that was cut at the bound
C3_Witness ==
    /\ tpc = "done"
    /\ treq.max_depth >= 2
    /\ \E i \in 1..Len(tree) :
         /\ Depth(tree[i]) = treq.max_depth
         /\ HasRepeat(tree[i].path)
         /\ ChildEdges(Last(tree[i].path)) # {}

\* the rank of a walk in progress: per frame, outermost first, whether its
\* query is still to run and how many rows it has left
FrameRank(st, i) ==
    IF i > Len(st) THEN <<0, 0>>
    ELSE IF ~st[i].queried THEN <<1, 0>>
    ELSE <<0, Len(st[i].rows)>>

PairLess(a, b) == a[1] < b[1] \/ (a[1] = b[1] /\ a[2] < b[2])

RankLess(s, t, n) ==
    \E i \in 1..n :
        /\ \A j \in 1..(i - 1) : FrameRank(s, j) = FrameRank(t, j)
        /\ PairLess(FrameRank(s, i), FrameRank(t, i))

\* C4: get_dialogue_tree terminates on every graph, cyclic ones included:
\* a walk in progress always reaches its end, never holds more than
\* max_depth frames, and every query strictly lowers its rank.
C4_Terminates ==
    /\ (tpc = "walk") ~> (tpc = "done")
    /\ [][get_children =>
            /\ Len(stack) <= treq.max_depth
            /\ Len(stack') <= treq.max_depth
            /\ RankLess(stack', stack, treq.max_depth)]_vars

\* a finished walk whose tree went round a cycle back to the root
C4_Witness ==
    /\ tpc = "done"
    /\ tres.status = 200
    /\ \E i \in 2..Len(tree) : Last(tree[i].path) = treq.root_node_id

NotFound == [status |-> 404, detail |-> "not found"]

\* C5: get_dialogue_tree for a root that another user owns answers exactly
\* what it answers for a root that does not exist: None, which
\* get_conversation turns into the same 404, with no tree and no store write.
C5_ForeignRootIsNotFound ==
    [][(tpc = "idle" /\ tpc' # "idle") =>
         \A r \in DialogueIds \cup {"c"}, u \in Users :
            (r \notin DOMAIN nodes \/ nodes[r].user_id # u) =>
                \A d \in 0..(MaxDepthArg + 1) :
                    get_dialogue_tree(r, u, d)
                      => /\ tpc' = "done"
                         /\ tres' = NotFound
                         /\ tree' = <<>>
                         /\ stack' = <<>>]_vars

\* a request for an existing root of another user was answered 404
C5_Witness ==
    /\ tpc = "done"
    /\ tres = NotFound
    /\ treq.root_node_id \in DOMAIN nodes
    /\ nodes[treq.root_node_id].user_id # treq.user_id
\* C12: no node_id appears twice on a root-to-descendant path of the tree
\* get_dialogue_tree builds, also when the HAS_CHILD edges form a cycle.
C12_NoRevisitOnPath ==
    \A i \in 1..Len(tree) : ~HasRepeat(tree[i].path)

\* C13: every node of the tree get_dialogue_tree builds for user_id, the
\* descendants included, has that user_id.
C13_TreeOfOwnerOnly ==
    \A i \in 1..Len(tree) : tree[i].node.user_id = treq.user_id

----------------------------------------------------------------------------
(* Claims about the order of children (specification SpecSiblings)         *)

\* the datetime a stored timestamp text stands for
fromisoformat(text) == IF Len(text) = 1 THEN <<text[1], 0>> ELSE <<text[1], text[2]>>

NotAfter(s, t) ==
    LET a == fromisoformat(s)
        b == fromisoformat(t)
    IN  a[1] < b[1] \/ (a[1] = b[1] /\ a[2] <= b[2])

\* node ids in lexical order
IdOrder == <<"a", "a_root", "b", "p", "x", "y">>

IdRank(id) == CHOOSE k \in 1..Len(IdOrder) : IdOrder[k] = id

\* entries i and j of the tree are children of the same parent entry
Siblings(i, j) ==
    /\ i < j
    /\ Len(tree[i].path) > 1
    /\ Front(tree[i].path) = Front(tree[j].path)

\* C15: the children of a node come in the tree in ascending order of their
\* recorded timestamps, whatever the order in which their saves and links
\* were made.
C15_ChildrenByTimestamp ==
    \A i, j \in 1..Len(tree) :
        Siblings(i, j) => NotAfter(tree[i].node.timestamp, tree[j].node.timestamp)

\* a finished tree of p in which y comes before x, y's timestamp (written
\* with microseconds) being the earlier one
C15_Witness ==
    /\ tpc = "done"
    /\ Len(tree) = 3
    /\ tree[2].node.node_id = "y"
    /\ tree[3].node.node_id = "x"
    /\ tree[2].node.timestamp = <<1, 5>>
    /\ tree[3].node.timestamp = <<2>>

\* C16: children of equal timestamp come in ascending lexical order of
\* node_id.
C16_TiesByNodeId ==
    \A i, j \in 1..Len(tree) :
        (Siblings(i, j) /\ tree[i].node.timestamp = tree[j].node.timestamp)
          => IdRank(tree[i].node.node_id) < IdRank(tree[j].node.node_id)

\* the entries of the tree that are the children listed under entry i (the
\* tree is in the order of the walk: the descendants of an entry follow it
\* up to the next entry that is not deeper than it)
ChildEntries(i) ==
    {j \in (i + 1)..Len(tree) :
        /\ Len(tree[j].path) = Len(tree[i].path) + 1
        /\ \A k \in (i + 1)..j : Len(tree[k].path) > Len(tree[i].path)}

\* C23: no node_id comes twice among the children listed under
\* one parent of the tree, however the pair was linked.
C23_ChildListedOnce ==
    \A i \in 1..Len(tree) :
        \A j, k \in ChildEntries(i) :
            tree[j].node.node_id = tree[k].node.node_id => j = k

----------------------------------------------------------------------------
(* Claims about the mind map (specification SpecMap)                       *)

\* an anchor that is the only node its id resolves to and has no
\* relationship from it and no HAS_CHILD/HAS_KEYWORD relationship to it
IsolatedAnchor(cid) ==
    /\ Anchors(cid) = {cid}
    /\ {e \in edges : e.src = cid} = {}
    /\ ParentEdges(cid) = {}

\* C7: get_mind_map on an existing anchor with no outgoing edge (and no
\* incoming HAS_CHILD/HAS_KEYWORD edge) returns exactly that one node and
\* no edge.
C7_IsolatedAnchorIsSingleNode ==
    [][\A cid \in {"a", "a_root"} :
         (/\ IsolatedAnchor(cid)
          /\ get_mind_map(cid)
          /\ mres' = MindMapResponse(cid, [raised |-> FALSE,
                                           records |-> Records(CypherRows(cid))]))
           => /\ mres'.status = 200
              /\ Len(mres'.graph.nodes) = 1
              /\ mres'.graph.nodes[1].id = cid
              /\ mres'.graph.edges = <<>>]_vars

QueryFails(q) == q.raised \/ BuildGraph(q.records, <<>>, <<>>).raised

\* C9: get_mind_map never errors to its caller: every answer given is a 200
\* with a graph, and in every state each call that can be made answers 200,
\* with the empty graph whenever its query raises or a row of it cannot be
\* processed.
C9_MindMapNeverErrors ==
    /\ mres # <<>> => mres.status = 200
    /\ \A cid \in {"a", "a_root"} :
         \A q \in query(cid) :
            LET response == MindMapResponse(cid, q)
            IN  /\ response.status = 200
                /\ QueryFails(q) => response.graph = EmptyGraph

\* a call answered the empty graph although the graph holds a complete row
\* for it: the query failed, or a row of it could not be processed
C9_Witness ==
    /\ mres # <<>>
    /\ mres.status = 200
    /\ mres.graph = EmptyGraph
    /\ \E row \in CypherRows(mres.conversation_id) :
         ~Falsy(row.source_id) /\ ~Falsy(row.target_id)
\* the response of get_mind_map(cid) when its query returns its rows
Projection(cid) ==
    MindMapResponse(cid, [raised |-> FALSE, records |-> Records(CypherRows(cid))])

EdgeIds(graph) == {graph.edges[i].id : i \in 1..Len(graph.edges)}

NodeIds(graph) == {graph.nodes[i].id : i \in 1..Len(graph.nodes)}

ParentsOf(n) == {e.src : e \in ParentEdges(n)}

\* C17: for an anchor n two levels below its top-most ancestor (g -> p -> n,
\* g without incoming HAS_CHILD/HAS_KEYWORD edge) the mind map answered is
\* the map of g: exactly the outgoing edges of g.
C17_MapOfTopAncestor ==
    \A g \in DOMAIN nodes, p \in DOMAIN nodes, n \in DOMAIN nodes :
        (/\ g # p /\ p # n /\ g # n
         /\ Anchors(n) = {n}
         /\ ParentsOf(n) = {p}
         /\ ParentsOf(p) = {g}
         /\ ParentsOf(g) = {}
         /\ mres = Projection(n))
          => EdgeIds(mres.graph) = {e \in edges : e.src = g}

\* C18: no relationship identifier appears twice in the edge list of the
\* mind map answered.
C18_EdgesKeyedById ==
    \A cid \in {"a", "a_root"} :
        mres = Projection(cid) =>
            \A i, j \in 1..Len(mres.graph.edges) :
                mres.graph.edges[i].id = mres.graph.edges[j].id => i = j

\* C19: no node id appears twice in the node list of the mind map, whatever
\* rows the query returns.
C19_NodesKeyedById ==
    \A cid \in {"a", "a_root"} :
        \A q \in query(cid) :
            LET ns == MindMapResponse(cid, q).graph.nodes
            IN  \A i, j \in 1..Len(ns) : ns[i].id = ns[j].id => i = j

\* a mind map was answered that has two nodes and two or more edges between
\* them: each node was met in more than one row
C19_Witness ==
    /\ mres # <<>>
    /\ Len(mres.graph.nodes) = 2
    /\ Len(mres.graph.edges) >= 2
    /\ \A i \in 1..Len(mres.graph.edges) :
         mres.graph.edges[i].source # mres.graph.edges[i].target

\* the rows of the query that come from the anchor with node_id = cid itself
OwnRows(cid) == {row \in CypherRows(cid) : row.of[1] \in MatchDialogue(cid)}

\* C20: when a node with node_id = cid exists, the mind map answered is the
\* one that node alone gives, whether or not a node cid + "_root" exists too.
C20_RootSuffixOnlyAsFallback ==
    \A cid \in {"a", "a_root"} :
        (MatchDialogue(cid) # {} /\ mres = Projection(cid)) =>
            LET own == BuildGraph(Records(OwnRows(cid)), <<>>, <<>>)
            IN  ~own.raised
                  => /\ NodeIds(mres.graph) = NodeIds(own)
                     /\ EdgeIds(mres.graph) = EdgeIds(own)
                     /\ Len(mres.graph.edges) = Len(own.edges)

\* a row with its source id and its target id (the relationship id of a row
\* is the relationship itself and is never missing)
Complete(row) == ~Falsy(row.source_id) /\ ~Falsy(row.target_id)

\* a row both of whose labels are texts, or absent
TextLabels(row) ==
    /\ ~LabelRaises(row.source_title, row.source_content)
    /\ ~LabelRaises(row.target_title, row.target_content)

\* C21: in the mind map answered, every edge comes from a row that has its
\* ids, and every row that has its ids (and labels that are texts)
\* contributes its edge and its two nodes, whatever the other rows are.
C21_PartialDataTolerated ==
    \A cid \in {"a", "a_root"} :
        mres = Projection(cid) =>
            /\ \A i \in 1..Len(mres.graph.edges) :
                 \E row \in CypherRows(cid) :
                    Complete(row) /\ row.rel_id = mres.graph.edges[i].id
            /\ \A row \in CypherRows(cid) :
                 (Complete(row) /\ TextLabels(row))
                   => /\ row.rel_id \in EdgeIds(mres.graph)
                      /\ row.source_id \in NodeIds(mres.graph)
                      /\ row.target_id \in NodeIds(mres.graph)

----------------------------------------------------------------------------
(* Claims about chat and the intent router (specification SpecChat)        *)

IsNewAssistantNode(k) ==
    /\ k \in DOMAIN nodes
    /\ nodes[k].label = "DialogueNode"
    /\ nodes[k].role = "assistant"

\* C1: a turn submitted with no parent and no fragment, once answered, has
\* put one new DialogueNode into the graph, the one the response names: it
\* has role=assistant and no incoming HAS_CHILD edge.
C1_RootTurnCreatesNode ==
    (/\ cpc = "answered"
     /\ cres.status = 200
     /\ creq.parent_id = NULL
     /\ ~Truthy(creq.ref_fragment_id))
      => /\ IsNewAssistantNode(cres.conversation_id)
         /\ {e \in edges : e.dst = cres.conversation_id /\ e.type = "HAS_CHILD"} = {}

\* C8: a follow-up submitted with a fragment f and the id P of an existing
\* node, once answered, has put a new DialogueNode C and an edge
\* P -[HAS_CHILD {fragment_id: f}]-> C into the graph, so that a tree read
\* finds C among the children of P.
C8_FollowUpLinksChild ==
    (/\ cpc = "answered"
     /\ cres.status = 200
     /\ Truthy(creq.ref_fragment_id)
     /\ MatchDialogue(creq.parent_id) # {})
      => /\ IsNewAssistantNode(cres.conversation_id)
         /\ \E e \in HasChildEdges(creq.parent_id, cres.conversation_id) :
                e.fragment_id = creq.ref_fragment_id
         /\ \E rows \in ChildRows(creq.parent_id) :
                \E i \in 1..Len(rows) : rows[i].node_id = cres.conversation_id

\* C10: route never fails: whatever the completion call does (a text, no
\* usable text, an exception), the router comes to Classified after that one
\* call with an intent among derivation, code, concept, and with concept
\* whenever the call failed.
C10_RouteNeverFails ==
    [][\A completion \in Completions :
         process_query_route(completion)
           => /\ cpc' = "classified"
              /\ cintent' \in Intents
              /\ attempts' = 1
              /\ (completion.kind # "text" => cintent' = "concept")]_vars

\* the router classified a request as code
C10_Witness ==
    /\ cpc = "classified"
    /\ cintent = "code"
    /\ attempts = 1

\* the word occurs in the response text, whatever the case of its letters
Mentions(text, word) ==
    \E i \in 0..(Len(text) - Len(word)) :
        \A k \in 1..Len(word) : LowerChar(text[i + k]) = word[k]

\* C22: a response text that mentions "code" or its Chinese word is
\* classified as code, also when it mentions derivation as well; otherwise
\* one that mentions "derivation" or its Chinese word is classified as
\* derivation; every other text is classified as concept. Case is ignored.
C22_OrderedSubstringTests ==
    [][\A completion \in Completions :
         (completion.kind = "text" /\ process_query_route(completion))
           => LET text == completion.text
                  code == Mentions(text, Code) \/ Mentions(text, CodeZh)
                  derivation == Mentions(text, Derivation)
                                  \/ Mentions(text, DerivationZh)
              IN  /\ code => cintent' = "code"
                  /\ (~code /\ derivation) => cintent' = "derivation"
                  /\ (~code /\ ~derivation) => cintent' = "concept"]_vars

\* the router classified a request as derivation
C22_Witness ==
    /\ cpc = "classified"
    /\ cintent = "derivation"
    /\ attempts = 1

\* C11: a turn submitted with a parent_id that names no node of the graph is
\* never answered successfully (the link to the parent fails and the request
\* ends in an error the caller sees).
C11_StaleParentRefused ==
    (/\ cpc \in {"answered", "failed"}
     /\ Truthy(creq.parent_id)
     /\ MatchDialogue(creq.parent_id) = {})
      => cres.status # 200

\* C14: in every state, whatever the interleaving of turns (answered, failed
\* or abandoned) and store calls, both endpoints of every HAS_CHILD edge are
\* DialogueNodes of the graph.
C14_NoDanglingEdge ==
    \A e \in edges :
        e.type = "HAS_CHILD" =>
            /\ e.src \in DOMAIN nodes /\ nodes[e.src].label = "DialogueNode"
            /\ e.dst \in DOMAIN nodes /\ nodes[e.dst].label = "DialogueNode"

\* a link to a missing child was refused in a graph that has an edge, while
\* a turn that names a missing parent stands answered
C14_Witness ==
    /\ ret.op = "link_dialogue_nodes"
    /\ ret.outcome = "ValueError: child missing"
    /\ edges # {}
    /\ cpc = "answered"
    /\ Truthy(creq.parent_id)
    /\ MatchDialogue(creq.parent_id) = {}
====
